---- MODULE Spec2Model ----
(***************************************************************************)
(* Deals-Site: the data-view core of the client-side catalog browser.      *)
(* The model follows src/unnamed/part_000 (the variant with the            *)
(* "popular games" section): the load of deals.json with its two timers,   *)
(* the in-memory view state (allDealsData, filteredDealsData, dealsSort,   *)
(* currentSearchTerm, currentPage), the sort / search / page handlers with *)
(* their 100 ms deferred callbacks, and what the handlers put on screen.   *)
(*                                                                         *)
(* Strings are TLA+ strings handled character by character; a JavaScript   *)
(* array is a sequence, and the identity of a record object is its field   *)
(* id (its position in the parsed JSON array).                             *)
(***************************************************************************)
EXTENDS Integers, Sequences, FiniteSets, TLC

(***************************************************************************)
(* Program constants                                                       *)
(***************************************************************************)
dealsPerPage == 20
popularItemsPerPage == 10
FetchTimeout == 10
FallbackTimeout == 15
FeaturedLimit == 12
FallbackLimit == 10

(***************************************************************************)
(* Bounds of the model                                                     *)
(***************************************************************************)
\* longest of the short deals.json lists (each fits on one page)
MaxShortLen == 2
\* most deferred (setTimeout 100 ms) callbacks pending at once
MaxPending == 1
\* most pages of the lists the paginator is followed on
MaxPages == 10
MaxPopularCycles == 5
MaxQuickClicks == 3

(***************************************************************************)
(* Small arithmetic helpers                                                *)
(***************************************************************************)
Min(a, b) == IF a <= b THEN a ELSE b
Max(a, b) == IF a >= b THEN a ELSE b
SetMin(S) == CHOOSE x \in S : \A y \in S : x <= y
Sign(n) == IF n < 0 THEN -1 ELSE IF n > 0 THEN 1 ELSE 0
\* Math.ceil(a / b) for a >= 0, b > 0
CeilDiv(a, b) == (a + b - 1) \div b

(***************************************************************************)
(* Strings                                                                 *)
(***************************************************************************)
UpperCase == "ABCDEFGHIJKLMNOPQRSTUVWXYZ"
LowerCase == "abcdefghijklmnopqrstuvwxyz"
CharAt(s, i) == SubSeq(s, i, i)
CharsOf(s) == {CharAt(s, i) : i \in 1..Len(s)}
LowerOfUpper ==
  [c \in CharsOf(UpperCase) |->
     CharAt(LowerCase, CHOOSE i \in 1..26 : CharAt(UpperCase, i) = c)]
LowerChar(c) == IF c \in DOMAIN LowerOfUpper THEN LowerOfUpper[c] ELSE c

\* String.prototype.toLowerCase
RECURSIVE toLowerCase(_)
toLowerCase(s) ==
  IF Len(s) = 0 THEN ""
  ELSE LowerChar(CharAt(s, 1)) \o toLowerCase(SubSeq(s, 2, Len(s)))

\* String.prototype.trim (the only white space of the model is the blank)
trim(s) ==
  LET nonBlank == {i \in 1..Len(s) : CharAt(s, i) # " "}
  IN  IF nonBlank = {} THEN ""
      ELSE SubSeq(s, SetMin(nonBlank),
                  CHOOSE i \in nonBlank : \A j \in nonBlank : j <= i)

\* String.prototype.startsWith
startsWith(s, p) == Len(p) <= Len(s) /\ SubSeq(s, 1, Len(p)) = p

\* String.prototype.includes
includes(s, p) ==
  \E i \in 1..(Len(s) - Len(p) + 1) : SubSeq(s, i, i + Len(p) - 1) = p

(***************************************************************************)
(* String.prototype.localeCompare under the root collation: the primary    *)
(* level orders blank < punctuation < digits < letters without regard to   *)
(* case, and only when two strings are equal at the primary level does the *)
(* case decide (lower case first).  The result is -1, 0 or 1.              *)
(***************************************************************************)
CollationOrder == " -':0123456789abcdefghijklmnopqrstuvwxyz"
PrimaryOf ==
  [c \in CharsOf(CollationOrder) |->
     CHOOSE i \in 1..Len(CollationOrder) : CharAt(CollationOrder, i) = c]
Primary(s, i) == PrimaryOf[LowerChar(CharAt(s, i))]
Tertiary(s, i) == IF CharAt(s, i) \in DOMAIN LowerOfUpper THEN 1 ELSE 0

\* the first position from i on at which the two strings differ at the
\* given level, 0 if there is none within the shorter string
RECURSIVE firstDiff(_, _, _, _)
firstDiff(a, b, i, primary) ==
  IF i > Len(a) \/ i > Len(b) THEN 0
  ELSE IF primary /\ Primary(a, i) # Primary(b, i) THEN i
  ELSE IF ~primary /\ Tertiary(a, i) # Tertiary(b, i) THEN i
  ELSE firstDiff(a, b, i + 1, primary)

localeCompare(a, b) ==
  IF a = b THEN 0
  ELSE LET d1 == firstDiff(a, b, 1, TRUE)
           d3 == firstDiff(a, b, 1, FALSE)
       IN  IF d1 # 0 THEN Sign(Primary(a, d1) - Primary(b, d1))
           ELSE IF Len(a) # Len(b) THEN Sign(Len(a) - Len(b))
           ELSE IF d3 # 0 THEN Sign(Tertiary(a, d3) - Tertiary(b, d3))
           ELSE 0

(***************************************************************************)
(* Deal records                                                            *)
(***************************************************************************)
\* Math.round(x) for x = num / den with den > 0: floor(x + 1/2)
RoundDiv(num, den) == (2 * num + den) \div (2 * den)

\* Math.round(((oldPrice - price) / oldPrice) * 100)
discountPercent(deal) ==
  RoundDiv((deal.oldPrice - deal.price) * 100, deal.oldPrice)

\* The record shapes deals.json is built from (url and imageUrl, which no
\* handler of the data-view core reads, are left out).
Catalog == <<
  [title |-> "Hades", platform |-> "PC", store |-> "Steam",
   price |-> 10, oldPrice |-> 25, featured |-> TRUE],
  [title |-> "hades II", platform |-> "PC", store |-> "Epic",
   price |-> 30, oldPrice |-> 30, featured |-> FALSE],
  [title |-> "Rust", platform |-> "Mac", store |-> "GOG",
   price |-> 10, oldPrice |-> 40, featured |-> TRUE],
  [title |-> "Doom", platform |-> "PC", store |-> "Steam",
   price |-> 40, oldPrice |-> 50, featured |-> FALSE],
  [title |-> "Rust Gold Edition", platform |-> "Mac", store |-> "Steam",
   price |-> 30, oldPrice |-> 20, featured |-> TRUE] >>

\* a deals.json of n records that walks through the catalog from the shape
\* at offset + 1 on
CycleList(n, offset) ==
  [i \in 1..n |-> Catalog[((offset + i - 1) % Len(Catalog)) + 1]]

\* the short lists: they start with a curated game, or with none
ShortLists ==
  {CycleList(n, offset) : n \in 0..MaxShortLen, offset \in {0, 3}}

\* a list that needs a second page: one "Rust" among copies of "Doom"
LongList ==
  [i \in 1..(dealsPerPage + 1) |-> IF i = 2 THEN Catalog[3] ELSE Catalog[4]]

\* the contents deals.json can have
Datasets == ShortLists \cup {LongList}

\* the lists the paginator is followed on: copies of one record, as many as
\* fill k pages, or k pages and a quarter
PagerLengths ==
  {dealsPerPage * k : k \in 0..MaxPages}
    \cup {dealsPerPage * k + 5 : k \in 0..(MaxPages - 1)}

PagerDatasets == {[i \in 1..n |-> Catalog[4]] : n \in PagerLengths}

\* record shapes around the curated name "Rust": the name itself, the name
\* followed by a colon, a longer word, a variant, and a curated name
\* followed by " -"
PopularCatalog == <<
  [title |-> "Rust", platform |-> "Mac", store |-> "GOG",
   price |-> 10, oldPrice |-> 40, featured |-> TRUE],
  [title |-> "Rust: Console", platform |-> "PC", store |-> "Steam",
   price |-> 20, oldPrice |-> 40, featured |-> FALSE],
  [title |-> "Rusty", platform |-> "PC", store |-> "Epic",
   price |-> 40, oldPrice |-> 50, featured |-> TRUE],
  [title |-> "Rust Gold Edition", platform |-> "Mac", store |-> "Steam",
   price |-> 30, oldPrice |-> 20, featured |-> TRUE],
  [title |-> "Hades - Remake", platform |-> "PC", store |-> "Steam",
   price |-> 10, oldPrice |-> 25, featured |-> TRUE] >>

\* the shapes no curated name selects
UncuratedCatalog == <<
  PopularCatalog[3], PopularCatalog[4], Catalog[4],
  [title |-> "Doom Eternal", platform |-> "PC", store |-> "GOG",
   price |-> 10, oldPrice |-> 40, featured |-> FALSE] >>

\* a deals.json of n records that walks through the given shapes
Cycle(shapes, n) == [i \in 1..n |-> shapes[((i - 1) % Len(shapes)) + 1]]

\* the lists the popular-games table is followed on: MaxPopularCycles
\* rounds of the shapes, with curated games and without any
PopularDatasets ==
  {Cycle(PopularCatalog, Len(PopularCatalog) * MaxPopularCycles),
   Cycle(UncuratedCatalog, Len(UncuratedCatalog) * MaxPopularCycles)}

\* the sort header clicked, and the values typed into the search box, while
\* the popular-games table is followed
PopularSortKeys == {"discount"}
PopularSearchInputs == {" ", " St"}

\* the two scripts of the repository: src/unnamed/part_000, and
\* src/script.js, which has no popular-games table and another paginator
Builds == {"part_000", "script.js"}

\* the values typed into the search box
SearchInputs == {" ", " St", "zz"}

SortKeys == {"title", "platform", "price", "discount", "store"}
columnMapping == <<"title", "platform", "price", "discount", "store">>

popularGames == {
    "Baldur's Gate 3", "Cyberpunk 2077", "Elden Ring", "Hogwarts Legacy",
    "The Witcher 3", "Red Dead Redemption 2", "Grand Theft Auto V",
    "Call of Duty", "FIFA", "Assassin's Creed", "Far Cry", "Watch Dogs",
    "Battlefield", "Destiny 2", "Overwatch", "Apex Legends", "Fortnite",
    "Counter-Strike", "Dota 2", "League of Legends", "World of Warcraft",
    "Final Fantasy", "Resident Evil", "Devil May Cry", "Street Fighter",
    "Tekken", "Mortal Kombat", "God of War", "Spider-Man", "Horizon",
    "Uncharted", "The Last of Us", "Ghost of Tsushima", "Diablo",
    "Overwatch 2", "Call of Duty: Modern Warfare", "Call of Duty: Warzone",
    "FIFA 24", "FIFA 23", "NBA 2K", "Madden NFL",
    "Assassin's Creed Valhalla", "Assassin's Creed Mirage", "Far Cry 6",
    "Far Cry 5", "Watch Dogs: Legion", "Battlefield 2042", "Battlefield V",
    "Counter-Strike 2", "Counter-Strike: Global Offensive",
    "Final Fantasy XIV", "Final Fantasy XVI", "Resident Evil 4",
    "Resident Evil Village", "Devil May Cry 5", "Street Fighter 6",
    "Tekken 8", "Mortal Kombat 1", "Spider-Man: Miles Morales",
    "Horizon Zero Dawn", "Horizon Forbidden West", "Uncharted 4",
    "The Last of Us Part I", "The Last of Us Part II", "Ghost of Tsushima",
    "Diablo IV", "Diablo III", "Among Us", "Minecraft", "Palworld",
    "Stardew Valley", "Hades", "Cuphead", "Celeste", "Hollow Knight",
    "Dead Cells", "Terraria", "Valheim", "Rust", "ARK: Survival Evolved",
    "Subnautica", "Fall Guys", "Phasmophobia", "Lethal Company",
    "It Takes Two", "A Way Out", "Overcooked", "Untitled Goose Game",
    "Rocket League", "Warframe", "Genshin Impact", "PUBG", "Valorant",
    "CS:GO", "Team Fortress 2", "New World", "New World: Aeternum",
    "Cities: Skylines", "Civilization", "Total War", "Age of Empires",
    "Sims", "Dead by Daylight", "The Forest", "7 Days to Die",
    "Don't Starve", "Left 4 Dead", "Back 4 Blood", "World War Z",
    "Monster Hunter", "Dark Souls", "Sekiro", "Bloodborne", "Demon's Souls",
    "Forza", "Gran Turismo", "F1", "Need for Speed", "Starfield", "Fallout",
    "Elder Scrolls", "Mass Effect", "Dragon Age" }

variantKeywords ==
  {"dlc", "pack", "expansion", "season pass", "bundle", "collection",
   "edition", "ultimate", "gold", "premium", "deluxe", "complete",
   "booster", "card", "trading", "starter", "upgrade", "add-on", "skin",
   "cosmetic", "weapon", "character", "hero", "champion"}

(***************************************************************************)
(* Array helpers.  An array of deal objects is a sequence of references:   *)
(* the i-th object of the parsed JSON array is the reference i.            *)
(***************************************************************************)
Range(a, b) == [i \in 1..(b - a + 1) |-> a + i - 1]

\* Array.prototype.slice(start, end): 0-based, end exclusive, a negative
\* index counts from the end of the array
slice(s, start, end) ==
  LET from == IF start < 0 THEN Max(Len(s) + start, 0) ELSE Min(start, Len(s))
      to   == IF end < 0 THEN Max(Len(s) + end, 0) ELSE Min(end, Len(s))
  IN  SubSeq(s, from + 1, to)

\* Array.prototype.sort that keeps one element of those that compare equal
ArraySortDroppingTies(s, cmp) ==
  LET RECURSIVE Pos(_, _, _)
      Pos(acc, x, j) ==
        IF j = 0 THEN 0
        ELSE IF cmp[acc[j], x] <= 0 THEN j
        ELSE Pos(acc, x, j - 1)
      Insert(acc, x) ==
        LET p == Pos(acc, x, Len(acc))
        IN  IF p > 0 /\ cmp[acc[p], x] = 0 THEN acc
            ELSE SubSeq(acc, 1, p) \o <<x>> \o SubSeq(acc, p + 1, Len(acc))
      RECURSIVE Build(_)
      Build(k) == IF k = 0 THEN <<>> ELSE Insert(Build(k - 1), s[k])
  IN  Build(Len(s))

\* Array.prototype.sort(cmp), cmp[a, b] the comparator's result: stable; x
\* goes right after the last element that does not compare greater than it
ArraySort(s, cmp) ==
  LET RECURSIVE Pos(_, _, _)
      Pos(acc, x, j) ==
        IF j = 0 THEN 0
        ELSE IF cmp[acc[j], x] <= 0 THEN j
        ELSE Pos(acc, x, j - 1)
      Insert(acc, x) ==
        LET p == Pos(acc, x, Len(acc))
        IN  SubSeq(acc, 1, p) \o <<x>> \o SubSeq(acc, p + 1, Len(acc))
      RECURSIVE Build(_)
      Build(k) == IF k = 0 THEN <<>> ELSE Insert(Build(k - 1), s[k])
      \* no element compares greater than its successor: the stable sort
      \* leaves such an array as it is
      inOrder == \A i \in 1..(Len(s) - 1) : cmp[s[i], s[i + 1]] <= 0
  IN  IF inOrder THEN s ELSE Build(Len(s))

(***************************************************************************)
(* Sorter: the comparator of sortAllDealsData                              *)
(***************************************************************************)
sortValue(deal, column) ==
  IF column = "discount" THEN discountPercent(deal) ELSE deal[column]

compareDeals(a, b, column, direction) ==
  IF column \in {"price", "discount"}
    THEN IF direction = "asc"
           THEN sortValue(a, column) - sortValue(b, column)
           ELSE sortValue(b, column) - sortValue(a, column)
    ELSE IF direction = "asc"
           THEN localeCompare(sortValue(a, column), sortValue(b, column))
           ELSE localeCompare(sortValue(b, column), sortValue(a, column))

\* sortAllDealsData sorting ascending and reversing the array for "desc"
sortReversingForDesc(heap, refs, sort) ==
  LET cmp == [a \in DOMAIN heap, b \in DOMAIN heap |->
               compareDeals(heap[a], heap[b], sort.column, "asc")]
      asc == ArraySort(refs, cmp)
  IN  IF sort.direction = "asc" THEN asc
      ELSE [i \in 1..Len(asc) |-> asc[Len(asc) + 1 - i]]

\* sortAllDealsData with a comparator that forgets the direction
sortAscendingOnly(heap, refs, sort) ==
  LET cmp == [a \in DOMAIN heap, b \in DOMAIN heap |->
               compareDeals(heap[a], heap[b], sort.column, "asc")]
  IN  ArraySort(refs, cmp)

\* what filteredDealsData.sort(...) leaves in the array refs of objects of
\* heap
sortAllDealsData(heap, refs, sort) ==
  LET cmp == [a \in DOMAIN heap, b \in DOMAIN heap |->
               compareDeals(heap[a], heap[b], sort.column, sort.direction)]
  IN  ArraySort(refs, cmp)

\* the sort shared by populateTopAAAGames and the fallback of
\* displayPopularGamesPage: discountB - discountA
sortByDiscountDesc(heap, refs) ==
  LET cmp == [a \in DOMAIN heap, b \in DOMAIN heap |->
               discountPercent(heap[b]) - discountPercent(heap[a])]
  IN  ArraySort(refs, cmp)

(***************************************************************************)
(* SearchFilter                                                            *)
(***************************************************************************)
\* e.target.value.toLowerCase().trim()
normalizeTerm(value) == trim(toLowerCase(value))

\* matchesTerm looking at the store as well as at the title
matchesTitleOrStore(deal, term) ==
  \/ includes(toLowerCase(deal.title), term)
  \/ includes(toLowerCase(deal.store), term)

\* deal.title.toLowerCase().includes(currentSearchTerm)
matchesTerm(deal, term) == includes(toLowerCase(deal.title), term)

\* the array performSearch assigns to filteredDealsData
searchFilter(heap, refs, term) ==
  IF term = "" THEN refs
  ELSE LET keep(r) == matchesTerm(heap[r], term) IN SelectSeq(refs, keep)

(***************************************************************************)
(* Paginator                                                               *)
(***************************************************************************)
\* the script the page runs
VARIABLE build

\* Math.ceil(filteredDealsData.length / dealsPerPage)
pageCountOf(refs) == CeilDiv(Len(refs), dealsPerPage)

\* pageSlice with startIndex = page * dealsPerPage
pageSliceFromNextPage(refs, page) ==
  slice(refs, page * dealsPerPage, page * dealsPerPage + dealsPerPage)

\* filteredDealsData.slice(startIndex, endIndex) of displayPage
pageSlice(refs, page) ==
  slice(refs, (page - 1) * dealsPerPage,
        (page - 1) * dealsPerPage + dealsPerPage)

\* the ellipsis in a page-link window
Ellipsis == 0

\* pageWindow with one neighbour on each side of the current page
pageWindowOneNeighbour(pageCount, page) ==
  <<1>>
  \o (IF pageCount <= 7 THEN Range(2, pageCount - 1)
      ELSE IF page <= 3 THEN Range(2, 5) \o <<Ellipsis>>
      ELSE IF page >= pageCount - 2
        THEN <<Ellipsis>> \o Range(pageCount - 4, pageCount - 1)
      ELSE <<Ellipsis>> \o Range(page - 1, page + 1) \o <<Ellipsis>>)
  \o (IF pageCount > 1 THEN <<pageCount>> ELSE <<>>)

\* pageWindow appending the link of the last page for every pageCount
pageWindowAlwaysLast(pageCount, page) ==
  <<1>>
  \o (IF pageCount <= 7 THEN Range(2, pageCount - 1)
      ELSE IF page <= 3 THEN Range(2, 5) \o <<Ellipsis>>
      ELSE IF page >= pageCount - 2
        THEN <<Ellipsis>> \o Range(pageCount - 4, pageCount - 1)
      ELSE <<Ellipsis>> \o Range(page - 2, page + 2) \o <<Ellipsis>>)
  \o <<pageCount>>

\* pageWindow with six links before the last page when the current page is
\* near the end
pageWindowLongTail(pageCount, page) ==
  <<1>>
  \o (IF pageCount <= 7 THEN Range(2, pageCount - 1)
      ELSE IF page <= 3 THEN Range(2, 5) \o <<Ellipsis>>
      ELSE IF page >= pageCount - 2
        THEN <<Ellipsis>> \o Range(pageCount - 6, pageCount - 1)
      ELSE <<Ellipsis>> \o Range(page - 2, page + 2) \o <<Ellipsis>>)
  \o (IF pageCount > 1 THEN <<pageCount>> ELSE <<>>)

\* the page links and ellipses setupPagination appends between the
\* Previous and Next buttons
pageWindow(pageCount, page) ==
  <<1>>
  \o (IF pageCount <= 7 THEN Range(2, pageCount - 1)
      ELSE IF page <= 3 THEN Range(2, 5) \o <<Ellipsis>>
      ELSE IF page >= pageCount - 2
        THEN <<Ellipsis>> \o Range(pageCount - 4, pageCount - 1)
      ELSE <<Ellipsis>> \o Range(page - 2, page + 2) \o <<Ellipsis>>)
  \o (IF pageCount > 1 THEN <<pageCount>> ELSE <<>>)

\* the page links the setupPagination of src/script.js appends: one for
\* each page
allPageLinks(pageCount) == Range(1, pageCount)

\* updatePaginationUI: disables the buttons at the ends
updatePaginationUI(pg, refs, page) ==
  IF pg.built
    THEN [pg EXCEPT !.prevDisabled = (page = 1),
                    !.nextDisabled = (page = pageCountOf(refs))]
    ELSE pg

\* the pagination container after setupPagination: its links and the
\* pageCount the Next handler closed over; the buttons start enabled, and
\* the setupPagination of src/script.js ends with updatePaginationUI
setupPagination(refs, page) ==
  IF build = "script.js"
    THEN updatePaginationUI(
           [built |-> TRUE, links |-> allPageLinks(pageCountOf(refs)),
            pageCount |-> pageCountOf(refs),
            prevDisabled |-> FALSE, nextDisabled |-> FALSE], refs, page)
    ELSE [built |-> TRUE, links |-> pageWindow(pageCountOf(refs), page),
          pageCount |-> pageCountOf(refs),
          prevDisabled |-> FALSE, nextDisabled |-> FALSE]

\* displayPage(page): currentPage = page, the rows of the page go into the
\* table, and setupPagination rebuilds the container pg (in src/script.js
\* updatePaginationUI updates it)
displayPage(pg, refs, page) ==
  [currentPage |-> page,
   tableBody |-> [kind |-> "rows", rows |-> pageSlice(refs, page)],
   pagination |-> IF build = "script.js"
                    THEN updatePaginationUI(pg, refs, page)
                    ELSE setupPagination(refs, page)]

\* the container as showLoadingStates leaves it
emptyPagination ==
  [built |-> FALSE, links |-> <<>>, pageCount |-> 0,
   prevDisabled |-> FALSE, nextDisabled |-> FALSE]

(***************************************************************************)
(* PopularGamesSelector and the featured cards                             *)
(***************************************************************************)
popularGamesLower == {toLowerCase(g) : g \in popularGames}

\* isVariant without the keywords "gold" and "edition"
isVariantWithoutEdition(title) ==
  \E kw \in variantKeywords \ {"gold", "edition"} : includes(title, kw)

\* the test for DLCs, packs and editions at the head of the filter
isVariant(title) == \E kw \in variantKeywords : includes(title, kw)

matchesCurated(title) ==
  \E gameName \in popularGamesLower :
     \/ title = gameName
     \/ startsWith(title, gameName \o " ")
     \/ startsWith(title, gameName \o ":")
     \/ startsWith(title, gameName \o " -")

isPopularDeal(deal) ==
  LET title == toLowerCase(deal.title)
  IN  ~isVariant(title) /\ matchesCurated(title)

\* the array populateTopAAAGames stores in popularGamesData
selectPopular(heap, refs) ==
  LET keep(r) == isPopularDeal(heap[r])
  IN  sortByDiscountDesc(heap, SelectSeq(refs, keep))

\* featuredDeals without the limit of twelve cards
featuredDealsUnlimited(heap, refs) ==
  LET keep(r) == heap[r].featured
  IN  SelectSeq(refs, keep)

\* deals.filter(deal => deal.featured).slice(0, 12)
featuredDeals(heap, refs) ==
  LET keep(r) == heap[r].featured
  IN  slice(SelectSeq(refs, keep), 0, FeaturedLimit)

(***************************************************************************)
(* What is on screen                                                       *)
(***************************************************************************)
\* createSkeletonFeaturedDeals / createSkeletonTableRows
Skeleton == [kind |-> "skeleton", rows |-> <<>>]
\* the error-container with its Retry button (showErrorState)
ErrorView == [kind |-> "error", rows |-> <<>>]
\* populateDealsTable / populateFeaturedDeals: one row or card per record
Populated(refs) == [kind |-> "rows", rows |-> refs]

\* hideLoadingStates emptying the container it is given
hideLoadingStatesEmptiesView(view) == [kind |-> "rows", rows |-> <<>>]

\* hideLoadingStates removes an element of class loading-container, which
\* neither the skeletons, nor the rows, nor the error view contain
hideLoadingStates(view) ==
  IF view.kind = "loading-container" THEN Populated(<<>>) ELSE view

(***************************************************************************)
(* State                                                                   *)
(***************************************************************************)
VARIABLES
  dealsJson,          \* the objects of the array the server's deals.json
                      \* holds, in the order of the file
  loadState,          \* position of the fetch promise chain: "pending"
                      \* (no response yet), "body" (response ok, reading the
                      \* JSON body), "ready" (set up), "failed" (catch ran)
  failCause,          \* the error handed to showErrorState, "none" if none
  fetchTimer,         \* the 10-unit abort timer: "armed", "cleared", "fired"
  fallbackTimer,      \* the 15-unit fallback timer: "armed", "fired"
  allDealsData,
  filteredDealsData,
  aliased,            \* allDealsData and filteredDealsData are one array
  currentPage,
  dealsSort,
  currentSearchTerm,
  popularGamesData,
  popularCurrentPage,
  featuredView,       \* the .featured-deals container
  tableBody,          \* the tbody of .deals-table
  popularBody,        \* the rows of #top-aaa-tbody
  pagination,         \* the #pagination-container
  noResultsMessage,   \* a .no-results-message element is in the document
  sortingWired,       \* the click handlers of setupSorting are registered
  searchWired,        \* the handlers of setupSearch are registered
  carouselWired,      \* the handlers of setupCarouselControls are registered
  setupThrown,        \* the steps of the success handler that threw
  setupLog,           \* the steps of the success handler that completed,
                      \* in the order of their "... complete" console lines
  pageRendered,       \* displayPage has run
  pending,            \* the setTimeout(..., 100) callbacks not yet run
  overtaken           \* history: a search ran while the callback of a page
                      \* control was pending, and no page control has
                      \* been clicked since

loadVars == <<loadState, failCause, fetchTimer>>
dataVars == <<dealsJson, build, allDealsData, filteredDealsData, aliased>>
popularVars == <<popularGamesData, popularCurrentPage, popularBody>>
wiringVars ==
  <<sortingWired, searchWired, carouselWired, setupThrown, setupLog>>
vars == <<dealsJson, build, loadState, failCause, fetchTimer, fallbackTimer,
          allDealsData, filteredDealsData, aliased, currentPage, dealsSort,
          currentSearchTerm, popularGamesData, popularCurrentPage,
          featuredView, tableBody, popularBody, pagination,
          noResultsMessage, sortingWired, searchWired, carouselWired,
          setupThrown, setupLog, pageRendered,
          pending, overtaken>>

\* the array response.json() delivers: the objects in the order of the file
loadedDeals == Range(1, Len(dealsJson))

\* the state after the synchronous part of initializeApp: the globals at
\* their initial values, the skeletons shown, both timers armed, the fetch
\* in flight
InitWith(datasets, builds) ==
  /\ dealsJson \in datasets
  /\ build \in builds
  /\ loadState = "pending"
  /\ failCause = "none"
  /\ fetchTimer = "armed"
  /\ fallbackTimer = "armed"
  /\ allDealsData = <<>>
  /\ filteredDealsData = <<>>
  /\ aliased = FALSE
  /\ currentPage = 1
  /\ dealsSort = [column |-> "title", direction |-> "asc"]
  /\ currentSearchTerm = ""
  /\ popularGamesData = <<>>
  /\ popularCurrentPage = 1
  /\ featuredView = Skeleton
  /\ tableBody = Skeleton
  /\ popularBody = <<>>
  /\ pagination = emptyPagination
  /\ noResultsMessage = FALSE
  /\ sortingWired = FALSE
  /\ searchWired = FALSE
  /\ carouselWired = FALSE
  /\ setupThrown = {}
  /\ setupLog = <<>>
  /\ pageRendered = FALSE
  /\ pending = <<>>
  /\ overtaken = FALSE

\* the page of src/unnamed/part_000 on the lists of Datasets
Init == InitWith(Datasets, {"part_000"})

(***************************************************************************)
(* The load.  Time is followed through the two timers: the abort timer is  *)
(* due FetchTimeout units after initializeApp and the fallback timer       *)
(* FallbackTimeout units after it, so the fallback timer runs only once    *)
(* the abort timer has fired or has been cleared.                          *)
(***************************************************************************)
\* clearTimeout(timeoutId)
clearTimeout(timer) == IF timer = "armed" THEN "cleared" ELSE timer

\* LoadFailure with a showErrorState that leaves the table as it is
LoadFailureLeavesTable(cause) ==
  /\ loadState' = "failed"
  /\ failCause' = cause
  /\ featuredView' = ErrorView
  /\ UNCHANGED <<fallbackTimer, dataVars, popularVars, wiringVars,
                 currentPage, dealsSort, currentSearchTerm, tableBody,
                 pagination, noResultsMessage, pageRendered, pending, overtaken>>

\* the .catch handler: clearTimeout(timeoutId); showErrorState(...)
LoadFailure(cause) ==
  /\ loadState' = "failed"
  /\ failCause' = cause
  /\ featuredView' = ErrorView
  /\ tableBody' = ErrorView
  /\ UNCHANGED <<fallbackTimer, dataVars, popularVars, wiringVars,
                 currentPage, dealsSort, currentSearchTerm, pagination,
                 noResultsMessage, pageRendered, pending, overtaken>>

\* first .then handler, response.ok: the abort timer is cleared and the
\* body is read
ResponseOk ==
  /\ loadState = "pending"
  /\ loadState' = "body"
  /\ fetchTimer' = clearTimeout(fetchTimer)
  /\ UNCHANGED <<failCause, fallbackTimer, dataVars, popularVars,
                 wiringVars, currentPage, dealsSort, currentSearchTerm,
                 featuredView, tableBody, pagination, noResultsMessage,
                 pageRendered, pending, overtaken>>

\* first .then handler, !response.ok: throws, and the .catch handler runs
ResponseNotOk ==
  /\ loadState = "pending"
  /\ fetchTimer' = clearTimeout(fetchTimer)
  /\ LoadFailure("http")

\* fetch itself rejects (network failure): the .catch handler runs
NetworkError ==
  /\ loadState = "pending"
  /\ fetchTimer' = clearTimeout(fetchTimer)
  /\ LoadFailure("network")

\* response.json() rejects: the .catch handler runs
ParseFailure ==
  /\ loadState = "body"
  /\ fetchTimer' = clearTimeout(fetchTimer)
  /\ LoadFailure("parse")

\* the abort timer fires: controller.abort() rejects the fetch, or the
\* body read, with an AbortError, and the .catch handler reports a timeout
FetchTimerFires ==
  /\ fetchTimer = "armed"
  /\ loadState \in {"pending", "body"}
  /\ fetchTimer' = "fired"
  /\ LoadFailure("timeout")

\* the fallback timer fires: hideLoadingStates
FallbackTimerFires ==
  /\ fallbackTimer = "armed"
  /\ FetchTimeout < FallbackTimeout => fetchTimer # "armed"
  /\ fallbackTimer' = "fired"
  /\ featuredView' = hideLoadingStates(featuredView)
  /\ tableBody' = hideLoadingStates(tableBody)
  /\ UNCHANGED <<loadVars, dataVars, popularVars, wiringVars, currentPage,
                 dealsSort, currentSearchTerm, pagination, noResultsMessage,
                 pageRendered, pending, overtaken>>

(***************************************************************************)
(* Load success: the second .then handler                                  *)
(***************************************************************************)
\* allDealsData after displayPopularGamesPage: with no popular game found
\* the fallback sorts allDealsData itself
afterPopular(heap, refs) ==
  IF Len(selectPopular(heap, refs)) = 0 THEN sortByDiscountDesc(heap, refs)
  ELSE refs

\* popularRows with a fallback that takes the deals in load order
popularRowsUnsortedFallback(heap, popular, all, page) ==
  IF Len(popular) = 0
    THEN slice(all, 0, FallbackLimit)
    ELSE slice(popular, (page - 1) * popularItemsPerPage,
               (page - 1) * popularItemsPerPage + popularItemsPerPage)

\* the rows displayPopularGamesPage puts in #top-aaa-tbody
popularRows(heap, popular, all, page) ==
  IF Len(popular) = 0
    THEN slice(sortByDiscountDesc(heap, all), 0, FallbackLimit)
    ELSE slice(popular, (page - 1) * popularItemsPerPage,
               (page - 1) * popularItemsPerPage + popularItemsPerPage)

\* the two populate calls, which only the outer try of the success handler
\* guards
OuterSteps == {"featured", "popular"}

\* the steps with a try/catch of their own, in the order the handler runs
\* them: setupSorting, setupPagination, setupCarouselControls, setupSearch,
\* and sortAllDealsData with displayPage(1)
SetupOrder == <<"sorting", "pagination", "carousel", "search", "render">>

SetupSteps == OuterSteps \cup {SetupOrder[i] : i \in DOMAIN SetupOrder}

\* the body of one inner try that completes; st holds what the handler has
\* changed so far, st.deals being the one array behind allDealsData and
\* filteredDealsData
setupStep(st, step) ==
  LET done == [st EXCEPT !.log = Append(@, step)]
      sorted == sortAllDealsData(dealsJson, st.deals, dealsSort)
  IN  CASE step = "sorting" -> [done EXCEPT !.sortingWired = TRUE]
        [] step = "pagination" ->
             [done EXCEPT !.pagination =
                            setupPagination(st.deals, st.currentPage)]
        [] step = "carousel" -> [done EXCEPT !.carouselWired = TRUE]
        [] step = "search" -> [done EXCEPT !.searchWired = TRUE]
        [] step = "render" ->
             [done EXCEPT !.deals = sorted,
                          !.currentPage = displayPage(st.pagination, sorted, 1).currentPage,
                          !.tableBody = displayPage(st.pagination, sorted, 1).tableBody,
                          !.pagination = displayPage(st.pagination, sorted, 1).pagination,
                          !.pageRendered = TRUE]

\* the inner tries without their catch: the first step that throws ends
\* the sequence
RECURSIVE runSetupUntilThrow(_, _, _)
runSetupUntilThrow(st, steps, throws) ==
  IF steps = <<>> THEN st
  ELSE IF Head(steps) \in throws
    THEN [st EXCEPT !.thrown = @ \cup {Head(steps)}]
  ELSE runSetupUntilThrow(setupStep(st, Head(steps)), Tail(steps), throws)

\* the inner try/catch blocks one after the other: a step in throws throws
\* (taken to throw before it has changed anything), its catch logs the
\* error, and the next step runs
RECURSIVE runSetup(_, _, _)
runSetup(st, steps, throws) ==
  IF steps = <<>> THEN st
  ELSE runSetup(IF Head(steps) \in throws
                  THEN [st EXCEPT !.thrown = @ \cup {Head(steps)}]
                  ELSE setupStep(st, Head(steps)),
                Tail(steps), throws)

\* the outer catch: populateFeaturedDeals or populateTopAAAGames threw;
\* hideLoadingStates(); showErrorState(setupError)
SetupError(throws) ==
  /\ loadState' = "failed"
  /\ failCause' = "setup"
  /\ allDealsData' = loadedDeals
  /\ filteredDealsData' = loadedDeals
  /\ aliased' = TRUE
  /\ featuredView' = ErrorView
  /\ tableBody' = ErrorView
  /\ setupThrown' =
       IF "featured" \in throws THEN {"featured"} ELSE {"popular"}
  /\ setupLog' = IF "featured" \in throws THEN <<>> ELSE <<"featured">>
  /\ UNCHANGED <<dealsJson, build, fetchTimer, fallbackTimer, popularVars,
                 sortingWired, searchWired, carouselWired, currentPage,
                 dealsSort, currentSearchTerm, pagination, noResultsMessage,
                 pageRendered, pending, overtaken>>

\* the second .then handler, the steps in throws throwing when they run
\* (src/script.js has no populateTopAAAGames):
\* allDealsData = deals; filteredDealsData = deals; populateFeaturedDeals;
\* populateTopAAAGames; setupSorting; setupPagination;
\* setupCarouselControls; setupSearch; sortAllDealsData; displayPage(1);
\* hideLoadingStates
LoadSuccess(throws) ==
  LET deals == loadedDeals
      hasPopular == build # "script.js"
      popular == IF hasPopular THEN selectPopular(dealsJson, deals)
                 ELSE popularGamesData
      start == [deals |-> IF hasPopular THEN afterPopular(dealsJson, deals)
                          ELSE deals,
                sortingWired |-> sortingWired,
                searchWired |-> searchWired,
                carouselWired |-> carouselWired,
                pagination |-> pagination,
                currentPage |-> currentPage,
                tableBody |-> tableBody,
                pageRendered |-> pageRendered,
                log |-> IF hasPopular THEN <<"featured", "popular">>
                        ELSE <<"featured">>,
                thrown |-> {}]
      end == runSetup(start, SetupOrder, throws)
  IN  /\ loadState = "body"
      /\ IF throws \cap (IF hasPopular THEN OuterSteps ELSE {"featured"}) # {}
           THEN SetupError(throws)
           ELSE /\ loadState' = "ready"
                /\ allDealsData' = end.deals
                /\ filteredDealsData' = end.deals
                /\ aliased' = TRUE
                /\ featuredView' =
                     hideLoadingStates(
                       Populated(featuredDeals(dealsJson, deals)))
                /\ popularGamesData' = popular
                /\ popularBody' =
                     IF hasPopular
                       THEN popularRows(dealsJson, popular, deals,
                                        popularCurrentPage)
                       ELSE popularBody
                /\ sortingWired' = end.sortingWired
                /\ searchWired' = end.searchWired
                /\ carouselWired' = end.carouselWired
                /\ setupThrown' = end.thrown
                /\ setupLog' = end.log
                /\ currentPage' = end.currentPage
                /\ tableBody' = hideLoadingStates(end.tableBody)
                /\ pagination' = end.pagination
                /\ pageRendered' = end.pageRendered
                /\ UNCHANGED <<dealsJson, build, failCause, fetchTimer,
                               fallbackTimer, dealsSort, currentSearchTerm,
                               popularCurrentPage, noResultsMessage,
                               pending, overtaken>>

(***************************************************************************)
(* Sort                                                                    *)
(***************************************************************************)
\* newDirection toggling whatever header is clicked
newDirectionIgnoringColumn(sort, sortKey) ==
  IF sort.direction = "asc" THEN "desc" ELSE "asc"

\* the direction a click on the header of sortKey selects
newDirection(sort, sortKey) ==
  IF sort.column = sortKey /\ sort.direction = "asc" THEN "desc" ELSE "asc"

\* click on a sortable header: the sort state changes at once, the table
\* shows the skeleton, the sorting itself is deferred
SortClick(sortKey) ==
  /\ sortingWired
  /\ Len(pending) < MaxPending
  /\ dealsSort' = [column |-> sortKey,
                   direction |-> newDirection(dealsSort, sortKey)]
  /\ tableBody' = Skeleton
  /\ pending' = Append(pending, [op |-> "sort", page |-> 0])
  /\ UNCHANGED <<loadVars, fallbackTimer, dataVars, popularVars, wiringVars,
                 currentPage, currentSearchTerm, featuredView, pagination,
                 noResultsMessage, pageRendered, overtaken>>

\* SortCallback staying on the current page: displayPage(currentPage)
SortCallbackKeepsPage ==
  LET sorted == sortAllDealsData(dealsJson, filteredDealsData, dealsSort)
  IN  /\ pending # <<>>
      /\ Head(pending).op = "sort"
      /\ pending' = Tail(pending)
      /\ filteredDealsData' = sorted
      /\ allDealsData' = IF aliased THEN sorted ELSE allDealsData
      /\ currentPage' = displayPage(pagination, sorted, currentPage).currentPage
      /\ tableBody' = displayPage(pagination, sorted, currentPage).tableBody
      /\ pagination' = displayPage(pagination, sorted, currentPage).pagination
      /\ pageRendered' = TRUE
      /\ UNCHANGED <<loadVars, fallbackTimer, dealsJson, build, aliased,
                     popularVars, wiringVars, dealsSort, currentSearchTerm,
                     featuredView, noResultsMessage, overtaken>>

\* the deferred callback of a header click:
\* sortAllDealsData(); displayPage(1); updateSortHeaders()
SortCallback ==
  LET sorted == sortAllDealsData(dealsJson, filteredDealsData, dealsSort)
  IN  /\ pending # <<>>
      /\ Head(pending).op = "sort"
      /\ pending' = Tail(pending)
      /\ filteredDealsData' = sorted
      /\ allDealsData' = IF aliased THEN sorted ELSE allDealsData
      /\ currentPage' = displayPage(pagination, sorted, 1).currentPage
      /\ tableBody' = displayPage(pagination, sorted, 1).tableBody
      /\ pagination' = displayPage(pagination, sorted, 1).pagination
      /\ pageRendered' = TRUE
      /\ UNCHANGED <<loadVars, fallbackTimer, dealsJson, build, aliased,
                     popularVars, wiringVars, dealsSort, currentSearchTerm,
                     featuredView, noResultsMessage, overtaken>>

(***************************************************************************)
(* Page changes                                                            *)
(***************************************************************************)
\* showTableLoading(); setTimeout(callback, 100), with at most limit
\* callbacks waiting
DeferPageUpTo(callback, limit) ==
  /\ Len(pending) < limit
  /\ tableBody' = Skeleton
  /\ pending' = Append(pending, callback)
  /\ overtaken' = FALSE
  /\ UNCHANGED <<loadVars, fallbackTimer, dataVars, popularVars, wiringVars,
                 currentPage, dealsSort, currentSearchTerm, featuredView,
                 pagination, noResultsMessage, pageRendered>>

DeferPage(callback) == DeferPageUpTo(callback, MaxPending)

\* click on the Previous button, with at most limit callbacks waiting
PrevClickUpTo(limit) ==
  /\ pagination.built
  /\ ~pagination.prevDisabled
  /\ currentPage > 1
  /\ DeferPageUpTo([op |-> "prev", page |-> 0], limit)

\* click on the Previous button
PrevClick == PrevClickUpTo(MaxPending)

\* click on the Next button, with at most limit callbacks waiting: pageCount
\* is the one its closure captured
NextClickUpTo(limit) ==
  /\ pagination.built
  /\ ~pagination.nextDisabled
  /\ currentPage < pagination.pageCount
  /\ DeferPageUpTo([op |-> "next", page |-> 0], limit)

\* click on the Next button
NextClick == NextClickUpTo(MaxPending)

\* click on a numbered page link of the container
PageLinkClick(pageNum) ==
  /\ pagination.built
  /\ \E i \in 1..Len(pagination.links) : pagination.links[i] = pageNum
  /\ pageNum # Ellipsis
  /\ DeferPage([op |-> "page", page |-> pageNum])

\* the page a deferred page callback hands to displayPage; currentPage is
\* read when the callback runs
callbackPage(callback, page) ==
  IF callback.op = "prev" THEN page - 1
  ELSE IF callback.op = "next" THEN page + 1
  ELSE callback.page

\* the deferred callback of a page control: displayPage(...)
PageCallback ==
  LET page == callbackPage(Head(pending), currentPage)
  IN  /\ pending # <<>>
      /\ Head(pending).op \in {"prev", "next", "page"}
      /\ pending' = Tail(pending)
      /\ currentPage' = displayPage(pagination, filteredDealsData, page).currentPage
      /\ tableBody' = displayPage(pagination, filteredDealsData, page).tableBody
      /\ pagination' = displayPage(pagination, filteredDealsData, page).pagination
      /\ pageRendered' = TRUE
      /\ UNCHANGED <<loadVars, fallbackTimer, dataVars, popularVars,
                     wiringVars, dealsSort, currentSearchTerm, featuredView,
                     noResultsMessage, overtaken>>

(***************************************************************************)
(* Search                                                                  *)
(***************************************************************************)
\* showNoResultsMessage without the test of the search term
showNoResultsWithoutTerm(refs, term) == Len(refs) = 0

\* showNoResultsMessage: the old message is removed, and a new one is
\* inserted if the search found nothing
showNoResultsMessage(refs, term) == Len(refs) = 0 /\ term # ""

\* performSearch with currentSearchTerm already set to term: the filter,
\* currentPage = 1, sortAllDealsData(), displayPage(1), updatePaginationUI(),
\* showNoResultsMessage()
performSearch(term) ==
  LET sorted == sortAllDealsData(dealsJson,
                                 searchFilter(dealsJson, allDealsData, term),
                                 dealsSort)
  IN  /\ currentSearchTerm' = term
      /\ filteredDealsData' = sorted
      /\ aliased' = FALSE
      /\ currentPage' = displayPage(pagination, sorted, 1).currentPage
      /\ tableBody' = displayPage(pagination, sorted, 1).tableBody
      /\ pagination' =
           updatePaginationUI(displayPage(pagination, sorted, 1).pagination, sorted, 1)
      /\ noResultsMessage' = showNoResultsMessage(sorted, term)
      /\ pageRendered' = TRUE
      /\ UNCHANGED <<loadVars, fallbackTimer, dealsJson, build, allDealsData,
                     popularVars, wiringVars, dealsSort, featuredView,
                     pending>>
      /\ overtaken' =
           \E i \in 1..Len(pending) : pending[i].op \in {"prev", "next", "page"}

\* input event on the search box
SearchInput(value) ==
  /\ searchWired
  /\ performSearch(normalizeTerm(value))

\* click on the clear button
ClearSearch ==
  /\ searchWired
  /\ performSearch("")

(***************************************************************************)
(* The popular-games pager.  setupPopularGamesPagination builds the two     *)
(* buttons only for more than one page; their handlers close over the      *)
(* totalPages of popularGamesData, which nothing assigns after the load.    *)
(***************************************************************************)
\* Math.ceil(popularGamesData.length / popularItemsPerPage)
popularTotalPages == CeilDiv(Len(popularGamesData), popularItemsPerPage)

\* displayPopularGamesPage(page), called by the two buttons
displayPopularGamesPage(page) ==
  /\ popularBody' = popularRows(dealsJson, popularGamesData, allDealsData,
                                page)
  /\ UNCHANGED <<dataVars, loadVars, fallbackTimer, currentPage, dealsSort,
                 currentSearchTerm, popularGamesData, featuredView,
                 tableBody, pagination, noResultsMessage, wiringVars,
                 pageRendered, pending, overtaken>>

\* PopularPrevClick taking the main table back to its first page as well
PopularPrevClickResetsMainPage ==
  /\ loadState = "ready"
  /\ build # "script.js"
  /\ popularTotalPages > 1
  /\ popularCurrentPage > 1
  /\ popularCurrentPage' = popularCurrentPage - 1
  /\ popularBody' = popularRows(dealsJson, popularGamesData, allDealsData,
                                popularCurrentPage')
  /\ currentPage' = 1
  /\ UNCHANGED <<dataVars, loadVars, fallbackTimer, dealsSort,
                 currentSearchTerm, popularGamesData, featuredView,
                 tableBody, pagination, noResultsMessage, wiringVars,
                 pageRendered, pending, overtaken>>

\* the previous button of the popular-games table
PopularPrevClick ==
  /\ loadState = "ready"
  /\ build # "script.js"
  /\ popularTotalPages > 1
  /\ popularCurrentPage > 1
  /\ popularCurrentPage' = popularCurrentPage - 1
  /\ displayPopularGamesPage(popularCurrentPage')

\* PopularNextClick without the test against totalPages
PopularNextClickUnguarded ==
  /\ loadState = "ready"
  /\ build # "script.js"
  /\ popularTotalPages > 1
  /\ popularCurrentPage <= popularTotalPages
  /\ popularCurrentPage' = popularCurrentPage + 1
  /\ displayPopularGamesPage(popularCurrentPage')

\* the next button of the popular-games table
PopularNextClick ==
  /\ loadState = "ready"
  /\ build # "script.js"
  /\ popularTotalPages > 1
  /\ popularCurrentPage < popularTotalPages
  /\ popularCurrentPage' = popularCurrentPage + 1
  /\ displayPopularGamesPage(popularCurrentPage')

(***************************************************************************)
(* Specification.  In Spec every step of the success handler completes     *)
(* (well-formed records, every anchor in the document); SetupSpec below    *)
(* follows the load with steps that throw.                                 *)
(***************************************************************************)
Next ==
  \/ ResponseOk
  \/ ResponseNotOk
  \/ NetworkError
  \/ ParseFailure
  \/ FetchTimerFires
  \/ FallbackTimerFires
  \/ LoadSuccess({})
  \/ \E sortKey \in SortKeys : SortClick(sortKey)
  \/ SortCallback
  \/ PrevClick
  \/ NextClick
  \/ \E pageNum \in 1..(pagination.pageCount) : PageLinkClick(pageNum)
  \/ PageCallback
  \/ \E value \in SearchInputs : SearchInput(value)
  \/ ClearSearch

Spec == Init /\ [][Next]_vars

\* the load alone, with setup steps that throw: any set of the steps of the
\* success handler may throw when it runs
SetupNext ==
  \/ ResponseOk
  \/ ResponseNotOk
  \/ NetworkError
  \/ ParseFailure
  \/ FetchTimerFires
  \/ FallbackTimerFires
  \/ \E throws \in SUBSET SetupSteps : LoadSuccess(throws)

SetupSpec == Init /\ [][SetupNext]_vars

\* the paginator alone, in both scripts, on lists of up to MaxPages pages:
\* the load succeeds and the user walks through the pages
PagerInit == InitWith(PagerDatasets, Builds)

PagerNext ==
  \/ ResponseOk
  \/ LoadSuccess({})
  \/ PrevClick
  \/ NextClick
  \/ \E pageNum \in 1..(pagination.pageCount) : PageLinkClick(pageNum)
  \/ PageCallback

PagerSpec == PagerInit /\ [][PagerNext]_vars

\* the page of src/unnamed/part_000 on lists with more curated games than one
\* popular page holds, or with none: the load succeeds and the user works
\* with the main table and with the popular-games table
PopularInit == InitWith(PopularDatasets, {"part_000"})

PopularNext ==
  \/ ResponseOk
  \/ LoadSuccess({})
  \/ \E sortKey \in PopularSortKeys : SortClick(sortKey)
  \/ SortCallback
  \/ PrevClick
  \/ NextClick
  \/ PageCallback
  \/ \E value \in PopularSearchInputs : SearchInput(value)
  \/ PopularPrevClick
  \/ PopularNextClick

PopularSpec == PopularInit /\ [][PopularNext]_vars

\* the Previous and Next buttons clicked up to MaxQuickClicks times within
\* the 100 ms before the first callback runs, on the lists of the paginator
QuickInit == InitWith(PagerDatasets, {"part_000"})

QuickNext ==
  \/ ResponseOk
  \/ LoadSuccess({})
  \/ PrevClickUpTo(MaxQuickClicks)
  \/ NextClickUpTo(MaxQuickClicks)
  \/ PageCallback

QuickSpec == QuickInit /\ [][QuickNext]_vars

\* the page of src/script.js on the lists of Datasets: the load succeeds and
\* the user searches and walks through the pages
ScriptInit == InitWith(Datasets, {"script.js"})

ScriptNext ==
  \/ ResponseOk
  \/ LoadSuccess({})
  \/ PrevClick
  \/ NextClick
  \/ \E pageNum \in 1..(pagination.pageCount) : PageLinkClick(pageNum)
  \/ PageCallback
  \/ \E value \in SearchInputs : SearchInput(value)

ScriptSpec == ScriptInit /\ [][ScriptNext]_vars

(***************************************************************************)
(* Vocabulary of the properties                                            *)
(***************************************************************************)
Ready == loadState = "ready"
Loading == loadState \in {"pending", "body"}
Failed == loadState = "failed"

\* a sort-header click is waiting for its deferred callback
SortPending == \E i \in 1..Len(pending) : pending[i].op = "sort"

\* the page count of the list currently shown
pageCount == pageCountOf(filteredDealsData)

\* the ascending comparator of a sort key, on references
KeyOrder(a, b, column) ==
  compareDeals(dealsJson[a], dealsJson[b], column, "asc")

\* refs is ordered according to sort
OrderedBy(refs, sort) ==
  \A i \in 1..(Len(refs) - 1) :
     IF sort.direction = "asc"
       THEN KeyOrder(refs[i], refs[i + 1], sort.column) <= 0
       ELSE KeyOrder(refs[i], refs[i + 1], sort.column) >= 0

(***************************************************************************)
(* C1: in every Ready state 1 <= currentPage <= max(1, pageCount), also    *)
(* when page controls are clicked while a deferred callback is pending.    *)
(* Two clicks on Previous at page 2 both pass the guard currentPage > 1,   *)
(* and each callback then subtracts 1 from the currentPage it finds.       *)
(***************************************************************************)
C1_CurrentPageInBounds ==
  Ready => 1 <= currentPage /\ currentPage <= Max(1, pageCount)

(***************************************************************************)
(* C2: after the load allDealsData is the loaded list, in the loaded       *)
(* order, in every state.  filteredDealsData = deals makes the two globals *)
(* one array, which sortAllDealsData sorts in place, and the popular-games *)
(* fallback sorts allDealsData itself.                                     *)
(***************************************************************************)
C2_AllDealsNeverMutated == Ready => allDealsData = loadedDeals

(***************************************************************************)
(* C3 as stated: in every Ready state filteredDealsData is ordered by the  *)
(* current sort, the time between a header click and its callback          *)
(* included.                                                               *)
(***************************************************************************)
C3_OrderedInEveryState == Ready => OrderedBy(filteredDealsData, dealsSort)

(***************************************************************************)
(* C3 amended: in every Ready state in which no sort-header click is       *)
(* waiting for its deferred callback, filteredDealsData is ordered by the  *)
(* current sort: non-decreasing under the key's comparator for asc,        *)
(* non-increasing for desc.                                                *)
(***************************************************************************)
C3_OrderedWhenNoSortPending ==
  Ready /\ ~SortPending => OrderedBy(filteredDealsData, dealsSort)

\* C3 witness: a descending sort has run and has put a larger key first
C3_Witness ==
  /\ Ready
  /\ ~SortPending
  /\ dealsSort = [column |-> "price", direction |-> "desc"]
  /\ \E i \in 1..(Len(filteredDealsData) - 1) :
        KeyOrder(filteredDealsData[i], filteredDealsData[i + 1], "price") > 0

(***************************************************************************)
(* C4: whenever no deferred callback is pending, filteredDealsData is the  *)
(* stable sort by the current sort of the filter by the current term of    *)
(* the loaded list, whatever Sort and Search events came before.  The sort *)
(* works in place on the order the earlier sorts left, so records with     *)
(* equal keys keep the order of the previous sort, not the loaded order.   *)
(***************************************************************************)
C4_FilteredIsFunctionOfInputs ==
  Ready /\ pending = <<>> =>
    filteredDealsData =
      sortAllDealsData(dealsJson,
                       searchFilter(dealsJson, loadedDeals, currentSearchTerm),
                       dealsSort)

(***************************************************************************)
(* C5 as stated: in every state in which dealsSort or currentSearchTerm    *)
(* differs from its value in the state before, currentPage is 1.           *)
(***************************************************************************)
C5_PageOneInStateAfterChange ==
  [][(dealsSort' # dealsSort \/ currentSearchTerm' # currentSearchTerm)
       => currentPage' = 1]_vars

\* the head of the pending callbacks is a sort callback, and it runs
SortCallbackRuns ==
  /\ pending # <<>>
  /\ Head(pending).op = "sort"
  /\ pending' = Tail(pending)

(***************************************************************************)
(* C5 amended: currentPage is 1 in every state in which currentSearchTerm  *)
(* differs from its value in the state before, and in every state reached  *)
(* by the run of the deferred callback of a sort-header click; the click   *)
(* itself changes dealsSort and leaves currentPage as it is.               *)
(***************************************************************************)
C5_PageOneAfterSearchAndSortCallback ==
  [][/\ currentSearchTerm' # currentSearchTerm => currentPage' = 1
     /\ SortCallbackRuns => currentPage' = 1
     /\ dealsSort' # dealsSort => currentPage' = currentPage]_vars

\* C5 witness: on a list of more than one page, a search and a sort have
\* run and the view is on page 1
C5_Witness ==
  /\ Ready
  /\ Len(allDealsData) > dealsPerPage
  /\ currentSearchTerm # ""
  /\ dealsSort.column # "title"
  /\ ~SortPending
  /\ currentPage = 1

\* a sort-header click has scheduled its callback
SortClicked == pending' = Append(pending, [op |-> "sort", page |-> 0])

Flip(direction) == IF direction = "asc" THEN "desc" ELSE "asc"

(***************************************************************************)
(* C6: the sort starts as {title, asc}; a click on a header whose key is   *)
(* the current key toggles the direction, a click on another header sets   *)
(* {key, asc}; nothing else changes the sort.                              *)
(***************************************************************************)
C6_SortTransition ==
  /\ [](~sortingWired => dealsSort = [column |-> "title", direction |-> "asc"])
  /\ [][(SortClicked \/ dealsSort' # dealsSort) =>
          /\ SortClicked
          /\ dealsSort'.column \in SortKeys
          /\ dealsSort'.direction =
               IF dealsSort'.column = dealsSort.column
                 THEN Flip(dealsSort.direction)
                 ELSE "asc"]_vars

\* C6 witness: the discount header was clicked, and clicked again
C6_Witness ==
  Ready /\ dealsSort = [column |-> "discount", direction |-> "desc"]

\* term occurs in the title of deal, letter case ignored
TitleContains(deal, term) ==
  \E i \in 1..(Len(deal.title) - Len(term) + 1) :
     \A j \in 1..Len(term) :
        LowerChar(CharAt(deal.title, i + j - 1)) = CharAt(term, j)

StoreContains(deal, term) ==
  \E i \in 1..(Len(deal.store) - Len(term) + 1) :
     \A j \in 1..Len(term) :
        LowerChar(CharAt(deal.store, i + j - 1)) = CharAt(term, j)

\* term has no upper-case letter and no blank at either end
Normalized(term) ==
  /\ \A i \in 1..Len(term) : CharAt(term, i) \notin CharsOf(UpperCase)
  /\ term # "" => CharAt(term, 1) # " " /\ CharAt(term, Len(term)) # " "

ElementsOf(refs) == {refs[i] : i \in 1..Len(refs)}
NoDuplicates(refs) == Cardinality(ElementsOf(refs)) = Len(refs)

(***************************************************************************)
(* C7: in every Ready state the search term is lower-cased and trimmed,    *)
(* and filteredDealsData holds, each once, exactly the records of          *)
(* allDealsData whose title contains the term, letter case ignored (all    *)
(* of them when the term is empty); no other field is matched.             *)
(***************************************************************************)
C7_FilteredIsExactlyTheMatches ==
  Ready =>
    /\ Normalized(currentSearchTerm)
    /\ NoDuplicates(allDealsData)
    /\ NoDuplicates(filteredDealsData)
    /\ ElementsOf(filteredDealsData) =
         {r \in ElementsOf(allDealsData) :
            TitleContains(dealsJson[r], currentSearchTerm)}

\* C7 witness: " St" was typed; a record is shown, and a record whose
\* store, but not whose title, contains "st" is not
C7_Witness ==
  /\ Ready
  /\ currentSearchTerm = "st"
  /\ filteredDealsData # <<>>
  /\ \E r \in ElementsOf(allDealsData) \ ElementsOf(filteredDealsData) :
        StoreContains(dealsJson[r], "st")

(***************************************************************************)
(* C8: in every Ready state the "no results" message is in the document    *)
(* exactly when filteredDealsData is empty and the search term is not.     *)
(***************************************************************************)
C8_NoResultsIndicator ==
  Ready =>
    (noResultsMessage <=>
       (Len(filteredDealsData) = 0 /\ currentSearchTerm # ""))

\* C8 witness: a search over a non-empty list found nothing
C8_Witness == Ready /\ noResultsMessage /\ Len(allDealsData) > 0

(***************************************************************************)
(* C9: every load failure (HTTP status, network, parse, timeout) leads     *)
(* from Loading to the same Failed state: the error view with its Retry    *)
(* button in both containers, allDealsData empty, no page rendered, no     *)
(* sort, search or page handler registered; and from then on no step       *)
(* changes anything but the fallback timer.                                *)
(***************************************************************************)
C9_LoadFailureIsTerminal ==
  /\ [](Failed =>
          /\ failCause \in {"http", "network", "parse", "timeout"}
          /\ featuredView = ErrorView
          /\ tableBody = ErrorView
          /\ allDealsData = <<>>
          /\ filteredDealsData = <<>>
          /\ ~pageRendered
          /\ ~sortingWired
          /\ ~searchWired
          /\ ~pagination.built
          /\ pending = <<>>)
  /\ [][failCause' # failCause => Loading /\ Failed']_vars
  /\ [][Failed =>
          UNCHANGED <<dealsJson, build, loadState, failCause, fetchTimer,
                      allDealsData, filteredDealsData, aliased, currentPage,
                      dealsSort, currentSearchTerm, popularGamesData,
                      popularCurrentPage, featuredView, tableBody,
                      popularBody, pagination, noResultsMessage,
                      sortingWired, searchWired, carouselWired,
                      setupThrown, setupLog, pageRendered, pending, overtaken>>]_vars

\* C9 witness: the load timed out, and the fallback timer has fired since
C9_Witness == Failed /\ failCause = "timeout" /\ fallbackTimer = "fired"

(***************************************************************************)
(* C10: the load does not stay in Loading beyond the 10-unit ceiling: when *)
(* the abort timer has fired the machine is in Failed with a timeout       *)
(* cause, and when the 15-unit fallback timer has fired, the load is no    *)
(* longer Loading, wherever the response stalled.  The first .then handler *)
(* clears the abort timer as soon as the status line has arrived, so a     *)
(* body that never completes is never timed out.                           *)
(***************************************************************************)
C10_LoadingEndsAtTimeout ==
  /\ fetchTimer = "fired" => Failed /\ failCause = "timeout"
  /\ fallbackTimer = "fired" => ~Loading

(***************************************************************************)
(* C11: once the 15-unit fallback timer has fired, no placeholder put up   *)
(* by showLoadingStates is on screen, whether the load has succeeded, has  *)
(* failed or is still pending: the featured container holds no skeleton    *)
(* cards, and the table holds no skeleton rows (other than those a click   *)
(* handler shows while its deferred callback is pending).                  *)
(***************************************************************************)
C11_LoadingUiClearedAtCeiling ==
  fallbackTimer = "fired" =>
    /\ featuredView # Skeleton
    /\ tableBody = Skeleton => pending # <<>>

(***************************************************************************)
(* C12 as stated: once the load has reached a terminal outcome, neither    *)
(* load timer is armed any more.                                           *)
(***************************************************************************)
C12_TimersClearedAtTerminalOutcome ==
  ~Loading => fetchTimer # "armed" /\ fallbackTimer # "armed"

(***************************************************************************)
(* C12 amended: the 10-unit abort timer is cleared (or spent) by the time  *)
(* the load reaches a terminal outcome and never runs after it; the        *)
(* 15-unit fallback timer is never cleared and does fire after a terminal  *)
(* outcome, but its callback then changes neither the view state nor what  *)
(* the view shows.                                                         *)
(***************************************************************************)
C12_TimerAfterTerminalOutcomeIsNoOp ==
  /\ [](~Loading => fetchTimer # "armed")
  /\ [][~Loading => fetchTimer' = fetchTimer]_vars
  /\ [][fallbackTimer' # fallbackTimer =>
          /\ fallbackTimer = "armed" /\ fallbackTimer' = "fired"
          /\ ~Loading =>
               UNCHANGED <<dealsJson, build, loadState, failCause, fetchTimer,
                           allDealsData, filteredDealsData, aliased,
                           currentPage, dealsSort, currentSearchTerm,
                           popularGamesData, popularCurrentPage,
                           featuredView, tableBody, popularBody, pagination,
                           noResultsMessage, sortingWired, searchWired,
                           carouselWired, setupThrown, setupLog,
                           pageRendered, pending, overtaken>>]_vars

\* C12 witness: the fetch was rejected while both timers were armed, and
\* the fallback timer has fired since
C12_Witness == Failed /\ failCause = "network" /\ fallbackTimer = "fired"

\* the causes a load failure hands to showErrorState
LoadFailureCauses == {"http", "network", "parse", "timeout"}

(***************************************************************************)
(* C13: only a load failure puts the error view with its Retry button on   *)
(* screen; when a step of the success handler throws (populating the       *)
(* featured cards or the popular-games table included), the error is       *)
(* swallowed and the machine is Ready with no error view shown.            *)
(***************************************************************************)
C13_OnlyLoadFailureShowsError ==
  /\ featuredView = ErrorView \/ tableBody = ErrorView =>
       failCause \in LoadFailureCauses
  /\ setupThrown # {} =>
       Ready /\ featuredView # ErrorView /\ tableBody # ErrorView

\* the steps of SetupOrder that did not throw, in order
CompletedSteps ==
  LET ran(step) == step \notin setupThrown IN SelectSeq(SetupOrder, ran)

(***************************************************************************)
(* C14: whatever subset of the five setup steps (sorting wiring,           *)
(* pagination wiring, carousel wiring, search wiring, initial render)      *)
(* throws, the machine is Ready and not Failed, every other step has run   *)
(* and had its effect, and the steps that ran completed in the handler's   *)
(* order.                                                                  *)
(***************************************************************************)
C14_SetupStepsIsolated ==
  /\ setupThrown # {} /\ setupThrown \cap OuterSteps = {} => Ready
  /\ Ready =>
       /\ setupThrown \cap OuterSteps = {}
       /\ setupLog = <<"featured", "popular">> \o CompletedSteps
       /\ sortingWired <=> "sorting" \notin setupThrown
       /\ carouselWired <=> "carousel" \notin setupThrown
       /\ searchWired <=> "search" \notin setupThrown
       /\ pageRendered <=> "render" \notin setupThrown
       /\ pagination.built <=> ~({"pagination", "render"} \subseteq setupThrown)
       /\ featuredView.kind = "rows"
       /\ "render" \notin setupThrown =>
            /\ currentPage = 1
            /\ OrderedBy(filteredDealsData, dealsSort)
            /\ tableBody = Populated(pageSlice(filteredDealsData, 1))

\* C14 witness: sorting wiring, carousel wiring and the initial render
\* threw; pagination and search are wired all the same
C14_Witness ==
  /\ Ready
  /\ setupThrown = {"sorting", "carousel", "render"}
  /\ pagination.built
  /\ searchWired
  /\ setupLog = <<"featured", "popular", "pagination", "search">>

\* how often the record deal occurs in the array refs
Occurrences(refs, deal) ==
  Cardinality({i \in 1..Len(refs) : dealsJson[refs[i]] = deal})

\* a and b hold the same multiset of records
SameRecords(a, b) ==
  /\ Len(a) = Len(b)
  /\ \A i \in 1..Len(a) :
        Occurrences(a, dealsJson[a[i]]) = Occurrences(b, dealsJson[a[i]])

(***************************************************************************)
(* C15: sorting is a permutation.  Whenever sortAllDealsData runs alone    *)
(* (the deferred callback of a header click, for every key and both        *)
(* directions) filteredDealsData holds the same multiset of records after  *)
(* it as before it, and the initial sort of the load leaves the multiset   *)
(* of the loaded records.                                                  *)
(***************************************************************************)
C15_SortIsPermutation ==
  /\ [][SortCallbackRuns =>
          SameRecords(filteredDealsData', filteredDealsData)]_vars
  /\ [][Loading /\ Ready' => SameRecords(filteredDealsData', loadedDeals)]_vars

\* C15 witness: a sort by discount, descending, has moved records that
\* share their key value with others
C15_Witness ==
  /\ Ready
  /\ ~SortPending
  /\ dealsSort = [column |-> "discount", direction |-> "desc"]
  /\ filteredDealsData # loadedDeals
  /\ \E i \in 1..(Len(filteredDealsData) - 1) :
        KeyOrder(filteredDealsData[i], filteredDealsData[i + 1],
                 "discount") = 0

\* the list after one more click on the header of the current sort key
Toggled(refs, direction) ==
  sortAllDealsData(dealsJson, refs,
                   [column |-> dealsSort.column, direction |-> direction])

(***************************************************************************)
(* C16: in every state in which the list is sorted ascending on a key      *)
(* (records sharing a key value included), two more activations of the     *)
(* same header (desc, then asc again) give back exactly the sequence the   *)
(* first ascending sort left.                                              *)
(***************************************************************************)
C16_DoubleToggleRestoresOrder ==
  Ready /\ ~SortPending /\ dealsSort.direction = "asc" =>
    Toggled(Toggled(filteredDealsData, "desc"), "asc") = filteredDealsData

\* C16 witness: a list of more than one page sorted ascending by store,
\* with records that share their store, and that the descending sort
\* reorders
C16_Witness ==
  /\ Ready
  /\ ~SortPending
  /\ dealsSort = [column |-> "store", direction |-> "asc"]
  /\ Len(filteredDealsData) > dealsPerPage
  /\ KeyOrder(filteredDealsData[2], filteredDealsData[3], "store") = 0
  /\ Toggled(filteredDealsData, "desc") # filteredDealsData

\* the least number of pages of dealsPerPage records that hold n records
PagesFor(n) ==
  CHOOSE k \in 0..n :
    k * dealsPerPage >= n /\ (k = 0 \/ (k - 1) * dealsPerPage < n)

\* the records of page p: refs[(p-1)*20 .. min(p*20, len)), counted from 0
PageItems(refs, p) ==
  SubSeq(refs, (p - 1) * dealsPerPage + 1, Min(p * dealsPerPage, Len(refs)))

(***************************************************************************)
(* C17: pagination partitions the list.  pageCount is                      *)
(* ceil(len(filteredDealsData) / 20), 0 for the empty list; page p of      *)
(* 1..pageCount holds filteredDealsData[(p-1)*20 .. min(p*20, len)): 20    *)
(* records on every page but the last, 1 to 20 on the last, and record i   *)
(* of the list is on page (i-1) div 20 + 1 at place (i-1) mod 20 + 1; the  *)
(* table shows the records of the current page.                            *)
(***************************************************************************)
C17_PaginationPartitions ==
  Ready /\ pageRendered =>
    /\ pageCount = PagesFor(Len(filteredDealsData))
    /\ \A p \in 1..pageCount :
          /\ pageSlice(filteredDealsData, p) = PageItems(filteredDealsData, p)
          /\ Len(pageSlice(filteredDealsData, p)) =
               IF p < pageCount THEN dealsPerPage
               ELSE Len(filteredDealsData) - dealsPerPage * (pageCount - 1)
          /\ Len(pageSlice(filteredDealsData, p)) \in 1..dealsPerPage
    /\ \A i \in 1..Len(filteredDealsData) :
          pageSlice(filteredDealsData, ((i - 1) \div dealsPerPage) + 1)
            [((i - 1) % dealsPerPage) + 1] = filteredDealsData[i]
    /\ pending = <<>> /\ currentPage \in 1..pageCount =>
          tableBody = Populated(PageItems(filteredDealsData, currentPage))

\* C17 witness: 45 records, and the third page shows the last 5
C17_Witness ==
  /\ Ready
  /\ Len(filteredDealsData) = 45
  /\ pageCount = 3
  /\ currentPage = 3
  /\ pending = <<>>
  /\ tableBody.rows = SubSeq(filteredDealsData, 41, 45)

(***************************************************************************)
(* C18: displayPage is tolerant of pages out of range: for every page      *)
(* number outside 1..pageCount (greater than pageCount, zero or negative)  *)
(* it renders an empty list of rows; and when currentPage is out of range  *)
(* the table shows no row.                                                 *)
(***************************************************************************)
C18_OutOfRangePageRendersNothing ==
  Ready /\ pageRendered =>
    /\ \A page \in ((0 - MaxPages)..0)
                     \cup ((pageCount + 1)..(pageCount + MaxPages)) :
          displayPage(pagination, filteredDealsData, page).tableBody.rows
            = <<>>
    /\ pending = <<>> /\ currentPage \notin 1..pageCount =>
          tableBody.rows = <<>>

\* the window of the four cases, written out
SpecifiedWindow(n, c) ==
  IF n <= 7 THEN [i \in 1..n |-> i]
  ELSE IF c <= 3 THEN <<1, 2, 3, 4, 5, Ellipsis, n>>
  ELSE IF c >= n - 2 THEN <<1, Ellipsis, n - 4, n - 3, n - 2, n - 1, n>>
  ELSE <<1, Ellipsis, c - 2, c - 1, c, c + 1, c + 2, Ellipsis, n>>

(***************************************************************************)
(* C19: in src/unnamed/part_000, for every pageCount >= 1 and every        *)
(* currentPage in 1..pageCount, the pagination container holds the window  *)
(* of the four cases: all pages when pageCount <= 7; else 1,2..5,ellipsis, *)
(* last when currentPage <= 3; else 1,ellipsis,pageCount-4..pageCount-1,   *)
(* last when currentPage >= pageCount-2; else 1,ellipsis,currentPage-2..   *)
(* currentPage+2,ellipsis,last.                                            *)
(***************************************************************************)
C19_PageLinkWindow ==
  /\ Ready /\ pageRendered /\ build = "part_000"
  /\ pageCount >= 1 /\ currentPage \in 1..pageCount
  => pagination.links = SpecifiedWindow(pageCount, currentPage)

\* C19 witness: page 10 of 10 shows 1, ellipsis, 6, 7, 8, 9, 10
C19_Witness ==
  /\ Ready /\ build = "part_000"
  /\ pageCount = 10 /\ currentPage = 10
  /\ pagination.links = <<1, Ellipsis, 6, 7, 8, 9, 10>>

\* the numbered links, and the ellipses, of the pagination container
NumberedLinks ==
  Cardinality({i \in 1..Len(pagination.links) :
                 pagination.links[i] # Ellipsis})
Ellipses ==
  Cardinality({i \in 1..Len(pagination.links) :
                 pagination.links[i] = Ellipsis})

(***************************************************************************)
(* C20: whatever the page count and the current page, the pagination       *)
(* container holds at most 7 numbered page links and at most 2 ellipses    *)
(* between its Previous and Next buttons.                                  *)
(***************************************************************************)
C20_PageControlsBounded ==
  pagination.built => NumberedLinks <= 7 /\ Ellipses <= 2

(***************************************************************************)
(* The popular-games table and the featured cards (PopularSpec)            *)
(***************************************************************************)
\* the lower-cased title of a loaded record
LowerTitle(r) == toLowerCase(dealsJson[r].title)

\* the title contains one of the variant keywords
ContainsVariantKeyword(r) ==
  \E kw \in variantKeywords : includes(LowerTitle(r), kw)

\* the title is a curated name, or starts with one followed by a separator
CuratedMatch(r) ==
  \E g \in popularGames :
     \/ LowerTitle(r) = toLowerCase(g)
     \/ \E sep \in {" ", ":", " -"} :
          startsWith(LowerTitle(r), toLowerCase(g) \o sep)

\* the loaded records the popular-games selection is specified to keep
CuratedDeals ==
  {r \in DOMAIN dealsJson : ~ContainsVariantKeyword(r) /\ CuratedMatch(r)}

\* refs runs from the highest discount to the lowest
DiscountNonIncreasing(refs) ==
  \A i \in 1..(Len(refs) - 1) :
     discountPercent(dealsJson[refs[i]])
       >= discountPercent(dealsJson[refs[i + 1]])

(***************************************************************************)
(* C21: once the page is Ready, popularGamesData holds, each once, exactly *)
(* the loaded deals whose lower-cased title contains no variant keyword    *)
(* and is a curated name or starts with a curated name followed by a       *)
(* space, a colon or " -"; it is ordered by discountPercent                *)
(* non-increasing; a title with a variant keyword is left out even when    *)
(* it starts with a curated name.                                          *)
(***************************************************************************)
PopularSelected ==
  /\ ElementsOf(popularGamesData) = CuratedDeals
  /\ NoDuplicates(popularGamesData)
  /\ DiscountNonIncreasing(popularGamesData)
  /\ \A r \in DOMAIN dealsJson :
        ContainsVariantKeyword(r) => r \notin ElementsOf(popularGamesData)

\* the page as the load leaves it: nothing clicked or typed since
AsLoaded ==
  /\ Ready
  /\ pending = <<>>
  /\ currentSearchTerm = ""
  /\ dealsSort = [column |-> "title", direction |-> "asc"]
  /\ currentPage = 1
  /\ popularCurrentPage = 1

\* the step that makes the page Ready leaves it as loaded, with the
\* selection made, and no later step assigns popularGamesData
C21_PopularSelection ==
  /\ [](AsLoaded => PopularSelected)
  /\ [][/\ (~Ready /\ Ready') => AsLoaded'
        /\ Ready => (Ready' /\ popularGamesData' = popularGamesData)]_vars

\* a page whose popular list holds a title with a colon after the curated
\* name and one with " -" after it, at different discounts, while a loaded
\* "Gold Edition" of a curated game and a longer word are left out
C21_Witness ==
  /\ Ready
  /\ \E i, j \in 1..Len(popularGamesData) :
        /\ dealsJson[popularGamesData[i]].title = "Rust: Console"
        /\ dealsJson[popularGamesData[j]].title = "Hades - Remake"
        /\ j < i
  /\ \E r \in DOMAIN dealsJson :
        /\ ContainsVariantKeyword(r)
        /\ CuratedMatch(r)
        /\ r \notin ElementsOf(popularGamesData)
  /\ \E r \in DOMAIN dealsJson :
        /\ dealsJson[r].title = "Rusty"
        /\ r \notin ElementsOf(popularGamesData)

(***************************************************************************)
(* C22: in every Ready state, when no loaded deal matches the curated      *)
(* list the popular-games table shows min(10, n) of the n loaded deals,    *)
(* each once, in non-increasing discount order, and no deal left out has   *)
(* a higher discount than one shown, so the table is empty only when no    *)
(* deal was loaded; when some deal matches, every row shown is one of the  *)
(* curated matches.                                                        *)
(***************************************************************************)
C22_PopularFallback ==
  Ready =>
    IF popularGamesData = <<>>
      THEN /\ Len(popularBody) = Min(FallbackLimit, Len(dealsJson))
           /\ NoDuplicates(popularBody)
           /\ ElementsOf(popularBody) \subseteq DOMAIN dealsJson
           /\ DiscountNonIncreasing(popularBody)
           /\ \A r \in ElementsOf(popularBody) :
                \A q \in DOMAIN dealsJson \ ElementsOf(popularBody) :
                   discountPercent(dealsJson[r])
                     >= discountPercent(dealsJson[q])
           /\ (Len(dealsJson) > 0 => popularBody # <<>>)
      ELSE ElementsOf(popularBody) \subseteq ElementsOf(popularGamesData)

\* a page without a curated game and with more deals than the fallback
\* shows: ten rows, and a deal left out below the last of them
C22_Witness ==
  /\ Ready
  /\ popularGamesData = <<>>
  /\ Len(dealsJson) > FallbackLimit
  /\ Len(popularBody) = FallbackLimit
  /\ \E q \in DOMAIN dealsJson \ ElementsOf(popularBody) :
        discountPercent(dealsJson[q])
          < discountPercent(dealsJson[popularBody[Len(popularBody)]])
  /\ discountPercent(dealsJson[popularBody[1]])
       > discountPercent(dealsJson[popularBody[Len(popularBody)]])

\* the loaded records marked as featured
FeaturedRecords == {r \in DOMAIN dealsJson : dealsJson[r].featured}

(***************************************************************************)
(* C23: in every Ready state the featured cards are the first min(12, n)   *)
(* of the n loaded records with featured = true, in load order, and no     *)
(* step taken once the page is Ready (a Sort, a Search, a PageChange)      *)
(* changes them.                                                           *)
(***************************************************************************)
C23_FeaturedSubset ==
  /\ [](Ready =>
          /\ featuredView.kind = "rows"
          /\ Len(featuredView.rows)
               = Min(FeaturedLimit, Cardinality(FeaturedRecords))
          /\ ElementsOf(featuredView.rows) \subseteq FeaturedRecords
          /\ \A i \in 1..(Len(featuredView.rows) - 1) :
                featuredView.rows[i] < featuredView.rows[i + 1]
          /\ \A r \in FeaturedRecords \ ElementsOf(featuredView.rows) :
                \A q \in ElementsOf(featuredView.rows) : q < r)
  /\ [][Ready => featuredView' = featuredView]_vars

\* more than twelve featured records were loaded, twelve cards are shown,
\* a record that is not featured lies between them in the list, and the
\* main table has since been sorted by discount and searched
C23_Witness ==
  /\ Ready
  /\ Cardinality(FeaturedRecords) > FeaturedLimit
  /\ Len(featuredView.rows) = FeaturedLimit
  /\ \E r \in DOMAIN dealsJson \ FeaturedRecords :
        featuredView.rows[1] < r /\ r < featuredView.rows[FeaturedLimit]
  /\ dealsSort.column = "discount"
  /\ currentSearchTerm = "st"
  /\ allDealsData # loadedDeals
  /\ pending = <<>>

\* an event of the main table: a sort-header click, a page control click,
\* a search input, or the deferred callback of one of the clicks
MainTableEvent ==
  \/ \E sortKey \in SortKeys : SortClick(sortKey)
  \/ SortCallback
  \/ PrevClick
  \/ NextClick
  \/ \E pageNum \in 1..(pagination.pageCount) : PageLinkClick(pageNum)
  \/ PageCallback
  \/ \E value \in SearchInputs : SearchInput(value)

\* a click on the previous or the next button of the popular-games table
PopularClick == PopularPrevClick \/ PopularNextClick

(***************************************************************************)
(* C24: every Sort, Search and PageChange of the main table leaves         *)
(* popularCurrentPage and popularGamesData unchanged, and every            *)
(* popular-games prev/next click leaves currentPage, filteredDealsData,    *)
(* the sort and the search term unchanged.                                 *)
(***************************************************************************)
C24_SeparatePagingDomains ==
  [][/\ MainTableEvent =>
          UNCHANGED <<popularCurrentPage, popularGamesData, popularBody>>
     /\ PopularClick =>
          UNCHANGED <<currentPage, filteredDealsData, allDealsData,
                      dealsSort, currentSearchTerm, tableBody,
                      pagination>>]_vars

\* both tables on their second page, the main table sorted by discount
C24_Witness ==
  /\ Ready
  /\ popularCurrentPage = 2
  /\ popularBody # <<>>
  /\ currentPage = 2
  /\ dealsSort.column = "discount"
  /\ pending = <<>>

(***************************************************************************)
(* C28: in every Ready state 1 <= popularCurrentPage <=                    *)
(* max(1, ceil(len(popularGamesData) / 10)), and, when curated games were  *)
(* found, the rows of the popular-games table are the records              *)
(* (popularCurrentPage - 1) * 10 + 1 .. popularCurrentPage * 10 of         *)
(* popularGamesData, as far as they exist, in order.                       *)
(***************************************************************************)
C28_PopularPageInRange ==
  Ready =>
    /\ 1 <= popularCurrentPage
    /\ popularCurrentPage
         <= Max(1, CeilDiv(Len(popularGamesData), popularItemsPerPage))
    /\ popularGamesData # <<>> =>
         LET first == (popularCurrentPage - 1) * popularItemsPerPage
             count == Min(popularItemsPerPage, Len(popularGamesData) - first)
         IN  /\ Len(popularBody) = count
             /\ \A i \in 1..count :
                   popularBody[i] = popularGamesData[first + i]

\* the last popular page, shorter than a full one, reached with the next
\* button
C28_Witness ==
  /\ Ready
  /\ popularCurrentPage = 2
  /\ popularCurrentPage = CeilDiv(Len(popularGamesData), popularItemsPerPage)
  /\ Len(popularBody) > 0
  /\ Len(popularBody) < popularItemsPerPage
  /\ popularBody[1] = popularGamesData[popularItemsPerPage + 1]

(***************************************************************************)
(* C25: a Search processed while the deferred callback of an earlier page  *)
(* click is pending is not overridden by it: in every Ready state in which *)
(* no callback is pending and no page control has been clicked since that  *)
(* Search, currentPage is 1.                                               *)
(***************************************************************************)
C25_SearchNotOverridden ==
  Ready /\ pending = <<>> /\ overtaken => currentPage = 1

\* the records of refs at the places (p-1)*20 .. p*20 - 1, counted from 0,
\* that exist
RecordsOfPage(refs, p) ==
  LET first == Max(0, (p - 1) * dealsPerPage)
      last == Min(p * dealsPerPage, Len(refs))
  IN  [k \in 1..(last - first) |-> refs[first + k]]

(***************************************************************************)
(* C26: in every Ready state in which no deferred callback is pending the  *)
(* main table holds rows, not the loading skeleton, and the rows are the   *)
(* records filteredDealsData[(currentPage-1)*20 .. currentPage*20), as far *)
(* as they exist, in order.                                                *)
(***************************************************************************)
C26_QuiescentRendering ==
  Ready /\ pageRendered /\ pending = <<>> =>
    /\ tableBody.kind = "rows"
    /\ tableBody.rows = RecordsOfPage(filteredDealsData, currentPage)

(***************************************************************************)
(* C27: in src/script.js the page controls follow the filtered list: a     *)
(* click on Next is accepted only when the next page is at most            *)
(* ceil(len(filteredDealsData) / 20), and in every Ready state each        *)
(* numbered link of the container targets a page of 1..pageCount of the    *)
(* current filteredDealsData.                                              *)
(***************************************************************************)
C27_ControlsFollowFilteredList ==
  [][build = "script.js" /\ Ready =>
       /\ NextClick => currentPage + 1 <= pageCount
       /\ \A i \in 1..Len(pagination.links) :
             pagination.links[i] \in 1..pageCount]_vars

\* the page numbers of the numbered links of the container, in its order
LinkNumbers ==
  LET numbered(l) == l # Ellipsis
  IN  SelectSeq(pagination.links, numbered)

\* the numbered links are in strictly increasing order
LinksIncreasing ==
  \A i \in 1..(Len(LinkNumbers) - 1) : LinkNumbers[i] < LinkNumbers[i + 1]

\* the main table of src/unnamed/part_000 is rendered, on a page in range
WindowShown ==
  /\ Ready /\ pageRendered /\ build = "part_000"
  /\ currentPage \in 1..Max(1, pageCount)

(***************************************************************************)
(* C29, as stated: for every pageCount >= 0 and every currentPage in       *)
(* 1..max(1, pageCount) the numbered links are strictly increasing, every  *)
(* link targets a page of 1..pageCount, and for pageCount >= 1 the window  *)
(* contains currentPage.                                                   *)
(***************************************************************************)
C29_WindowWellFormed ==
  WindowShown =>
    /\ LinksIncreasing
    /\ ElementsOf(LinkNumbers) \subseteq 1..pageCount
    /\ pageCount >= 1 => currentPage \in ElementsOf(LinkNumbers)

(***************************************************************************)
(* C29, amended: for every pageCount >= 1 and every currentPage in         *)
(* 1..pageCount the numbered links are strictly increasing, every link     *)
(* targets a page of 1..pageCount and the window contains currentPage; for *)
(* pageCount = 0 the window is the single link 1.                          *)
(***************************************************************************)
C29_WindowWellFormedFromOnePage ==
  WindowShown =>
    /\ LinksIncreasing
    /\ pageCount >= 1 =>
         /\ ElementsOf(LinkNumbers) \subseteq 1..pageCount
         /\ currentPage \in ElementsOf(LinkNumbers)
    /\ pageCount = 0 => pagination.links = <<1>>

\* C29 witness: page 5 of 10 shows 1, ellipsis, 3, 4, 5, 6, 7, ellipsis, 10
C29_Witness ==
  /\ WindowShown
  /\ pageCount = 10 /\ currentPage = 5
  /\ LinkNumbers = <<1, 3, 4, 5, 6, 7, 10>>
  /\ LinksIncreasing

\* the places of the ellipses in the container
EllipsisPlaces ==
  {i \in 1..Len(pagination.links) : pagination.links[i] = Ellipsis}

\* the ellipsis at place i stands between two numbered links
BetweenNumbers(i) ==
  /\ 1 < i /\ i < Len(pagination.links)
  /\ pagination.links[i - 1] # Ellipsis
  /\ pagination.links[i + 1] # Ellipsis

\* the number of pages the ellipsis at place i stands for
PagesOmittedAt(i) == pagination.links[i + 1] - pagination.links[i - 1] - 1

(***************************************************************************)
(* C30, as stated: for every pageCount > 7 and every currentPage in        *)
(* 1..pageCount each ellipsis sits between two numbered links whose page   *)
(* numbers differ by at least 2.                                           *)
(***************************************************************************)
C30_EllipsisOmitsPages ==
  WindowShown /\ pageCount > 7 =>
    \A i \in EllipsisPlaces : BetweenNumbers(i) /\ PagesOmittedAt(i) >= 1

(***************************************************************************)
(* C30, amended: for every pageCount > 7 and every currentPage in          *)
(* 1..pageCount each ellipsis sits between two numbered links, the         *)
(* smaller number first; it stands for at least one omitted page, except   *)
(* the ellipsis after link 1 when currentPage = 4, which is followed by    *)
(* link 2, and the ellipsis before the last link when                      *)
(* currentPage = pageCount - 3, which follows link pageCount - 1: these    *)
(* two stand for no page.                                                  *)
(***************************************************************************)
C30_EllipsisOmitsPagesButAtFourth ==
  WindowShown /\ pageCount > 7 =>
    \A i \in EllipsisPlaces :
       /\ BetweenNumbers(i)
       /\ PagesOmittedAt(i) >= 0
       /\ PagesOmittedAt(i) = 0 <=>
            \/ i = 2 /\ currentPage = 4
            \/ i = Len(pagination.links) - 1 /\ currentPage = pageCount - 3

\* C30 witness: page 4 of 8 shows 1, ellipsis, 2, 3, 4, 5, 6, ellipsis, 8
C30_Witness ==
  /\ WindowShown
  /\ pageCount = 8 /\ currentPage = 4
  /\ pagination.links = <<1, Ellipsis, 2, 3, 4, 5, 6, Ellipsis, 8>>
  /\ PagesOmittedAt(2) = 0
  /\ PagesOmittedAt(8) = 1

====
